---- MODULE Spec2Model ----
(***************************************************************************)
(* A model of the milkrandom generators (PCG-32, PCG-64, SplitMix64,       *)
(* Xoshiro256**, MIXMAX) and of their mutex-guarded Safe variants.         *)
(*                                                                         *)
(* Go's uint64 does not fit TLC's integers, so a uint64 is a tuple of four *)
(* 16-bit limbs, least significant first, and every Go operator on uint64  *)
(* (+, -, *, ^, &, |, <<, >>, %, <) is an operator on such tuples that     *)
(* wraps modulo 2^64 exactly as Go does.  A uint32 is a uint64 whose two   *)
(* upper limbs are zero (the conversion uint32(x) is U32), and a Go int is *)
(* the 64-bit two's complement pattern.                                    *)
(*                                                                         *)
(* A local variable of the code (v := e; ...) is bound with                *)
(* Let(e, LAMBDA v : ...), which evaluates e once, before what follows.    *)
(***************************************************************************)
EXTENDS Integers, Sequences, FiniteSets, TLC

VARIABLES kind, gen, clock, seedArg, outs, buf, last, pc, mu, snap, cert, steps

vars == <<kind, gen, clock, seedArg, outs, buf, last, pc, mu, snap, cert, steps>>

----------------------------------------------------------------------------
(* uint64 arithmetic on 16-bit limbs                                       *)

\* v := e; Body(v).  The value v is evaluated (as the element of a set) before
\* Body is entered, as the statement order of the code has it.
Let(v, Body(_)) == CHOOSE out \in {Body(w) : w \in {v}} : TRUE

\* for i := lo; i < hi; i++ { st = Step(st, i) }.  The range is halved and the
\* state after the first half is evaluated (as the element of a set) before
\* the second half starts, which keeps TLC's evaluation depth logarithmic in
\* hi - lo; the value is that of the loop.
RECURSIVE ForLoop(_, _, _, _)
ForLoop(Step(_, _), st, lo, hi) ==
    IF hi <= lo THEN st
    ELSE IF hi = lo + 1 THEN Step(st, lo)
    ELSE CHOOSE out \in {ForLoop(Step, half, (lo + hi) \div 2, hi) :
                            half \in {ForLoop(Step, st, lo, (lo + hi) \div 2)}} : TRUE

Limb == 2^16

Byte == 2^8

\* The word whose hexadecimal digits are h3 h2 h1 h0 (four digits each).
W(h3, h2, h1, h0) == <<h0, h1, h2, h3>>

Zero64 == <<0, 0, 0, 0>>

One64 == <<1, 0, 0, 0>>

Max64 == <<Limb - 1, Limb - 1, Limb - 1, Limb - 1>>

\* A small natural number as a word.
Nat64(n) == <<n % Limb, (n \div Limb) % Limb, 0, 0>>

RECURSIVE XorBits(_, _, _)
XorBits(a, b, n) ==
    IF n = 0 THEN 0
    ELSE ((a + b) % 2) + 2 * XorBits(a \div 2, b \div 2, n - 1)

\* The exclusive or of two bytes, tabulated: XorByte[a + 1][b + 1] is a ^ b.
XorByte == [a \in 1..Byte |-> [b \in 1..Byte |-> XorBits(a - 1, b - 1, 8)] \o <<>>] \o <<>>

\* The exclusive or of two limbs.
XorLimb(a, b) ==
    XorByte[(a % Byte) + 1][(b % Byte) + 1]
        + Byte * XorByte[(a \div Byte) + 1][(b \div Byte) + 1]

\* a ^ b
Xor64(a, b) ==
    <<XorLimb(a[1], b[1]), XorLimb(a[2], b[2]), XorLimb(a[3], b[3]), XorLimb(a[4], b[4])>>

\* The and of two limbs: a + b = (a ^ b) + 2 (a & b).
AndLimb(a, b) == (a + b - XorLimb(a, b)) \div 2

\* a & b
And64(a, b) ==
    <<AndLimb(a[1], b[1]), AndLimb(a[2], b[2]), AndLimb(a[3], b[3]), AndLimb(a[4], b[4])>>

\* The or of two limbs: a | b = (a ^ b) + (a & b).
OrLimb(a, b) == (a + b + XorLimb(a, b)) \div 2

\* a | b
Or64(a, b) ==
    <<OrLimb(a[1], b[1]), OrLimb(a[2], b[2]), OrLimb(a[3], b[3]), OrLimb(a[4], b[4])>>

\* Limbs i..4 of a + b + carry.
RECURSIVE AddLimbs(_, _, _, _)
AddLimbs(a, b, i, carry) ==
    IF i > 4 THEN <<>>
    ELSE <<(a[i] + b[i] + carry) % Limb>>
            \o AddLimbs(a, b, i + 1, (a[i] + b[i] + carry) \div Limb)

\* a + b, wrapping modulo 2^64
Add64(a, b) == AddLimbs(a, b, 1, 0)

\* Limbs i..4 of a - b - borrow.
RECURSIVE SubLimbs(_, _, _, _)
SubLimbs(a, b, i, borrow) ==
    IF i > 4 THEN <<>>
    ELSE <<(a[i] - b[i] - borrow) % Limb>>
            \o SubLimbs(a, b, i + 1, IF a[i] - b[i] - borrow < 0 THEN 1 ELSE 0)

\* a - b, wrapping modulo 2^64
Sub64(a, b) == SubLimbs(a, b, 1, 0)

\* Limb i of a, zero outside 1..4.
LimbAt(a, i) == IF i >= 1 /\ i <= 4 THEN a[i] ELSE 0

\* Limb i of a >> (16 q + r)
ShrLimb(a, q, r, i) ==
    (LimbAt(a, i + q) \div (2^r)) + (LimbAt(a, i + q + 1) % (2^r)) * (2^(16 - r))

\* a >> k (Go: zero when k >= 64)
Shr64(a, k) ==
    IF k >= 64 THEN Zero64
    ELSE <<ShrLimb(a, k \div 16, k % 16, 1), ShrLimb(a, k \div 16, k % 16, 2),
           ShrLimb(a, k \div 16, k % 16, 3), ShrLimb(a, k \div 16, k % 16, 4)>>

\* Limb i of a << (16 q + r)
ShlLimb(a, q, r, i) ==
    (LimbAt(a, i - q) % (2^(16 - r))) * (2^r) + (LimbAt(a, i - q - 1) \div (2^(16 - r)))

\* a << k (Go: zero when k >= 64)
Shl64(a, k) ==
    IF k >= 64 THEN Zero64
    ELSE <<ShlLimb(a, k \div 16, k % 16, 1), ShlLimb(a, k \div 16, k % 16, 2),
           ShlLimb(a, k \div 16, k % 16, 3), ShlLimb(a, k \div 16, k % 16, 4)>>

\* The eight bytes of a, least significant first.
Bytes8(a) ==
    <<a[1] % Byte, a[1] \div Byte, a[2] % Byte, a[2] \div Byte,
      a[3] % Byte, a[3] \div Byte, a[4] % Byte, a[4] \div Byte>>

\* Column k of the schoolbook product of the byte strings x and y: the sum of
\* x[i] * y[k + 1 - i] over i in 1..k, taken from i upwards.
RECURSIVE MulColumn(_, _, _, _)
MulColumn(x, y, k, i) ==
    IF i > k THEN 0 ELSE x[i] * y[k + 1 - i] + MulColumn(x, y, k, i + 1)

\* Limbs j..4 of the product whose byte columns are c, with the carry of the
\* limbs below.
RECURSIVE MulCarry(_, _, _)
MulCarry(c, j, carry) ==
    IF j > 4 THEN <<>>
    ELSE <<(c[2 * j - 1] + Byte * c[2 * j] + carry) % Limb>>
            \o MulCarry(c, j + 1, (c[2 * j - 1] + Byte * c[2 * j] + carry) \div Limb)

\* The product of the byte strings x and y, wrapping modulo 2^64.
MulBytes(x, y) ==
    MulCarry(<<MulColumn(x, y, 1, 1), MulColumn(x, y, 2, 1), MulColumn(x, y, 3, 1),
               MulColumn(x, y, 4, 1), MulColumn(x, y, 5, 1), MulColumn(x, y, 6, 1),
               MulColumn(x, y, 7, 1), MulColumn(x, y, 8, 1)>>, 1, 0)

\* a * b, wrapping modulo 2^64
Mul64(a, b) == Let(<<Bytes8(a), Bytes8(b)>>, LAMBDA xy : MulBytes(xy[1], xy[2]))

\* bits.RotateLeft64(a, k) for any integer k
RotateLeft64(a, k) == Or64(Shl64(a, k % 64), Shr64(a, 64 - (k % 64)))

\* a < b, unsigned
Lt64(a, b) ==
    \/ a[4] < b[4]
    \/ a[4] = b[4] /\ a[3] < b[3]
    \/ a[4] = b[4] /\ a[3] = b[3] /\ a[2] < b[2]
    \/ a[4] = b[4] /\ a[3] = b[3] /\ a[2] = b[2] /\ a[1] < b[1]

Le64(a, b) == ~Lt64(b, a)

\* Bit i (0 the lowest) of a.
BitAt(a, i) == (a[(i \div 16) + 1] \div (2^(i % 16))) % 2

\* The quotient and remainder once the remainder r2 and the quotient q2 have
\* taken in one more bit.
DivSub(n, q2, r2) ==
    IF Le64(n, r2) THEN <<Add64(q2, One64), Sub64(r2, n)>> ELSE <<q2, r2>>

\* One step of binary long division: qr = <<quotient, remainder>> after the
\* bits above i of a; the divisor is below 2^63 wherever it is used.
DivStep(a, n, qr, i) ==
    DivSub(n, Shl64(qr[1], 1), Add64(Shl64(qr[2], 1), <<BitAt(a, i), 0, 0, 0>>))

\* a / n and a % n for n # 0: the bits of a from the highest to the lowest.
DivMod64(a, n) ==
    ForLoop(LAMBDA qr, k : DivStep(a, n, qr, 63 - k), <<Zero64, Zero64>>, 0, 64)

Div64(a, n) == DivMod64(a, n)[1]

Mod64(a, n) == DivMod64(a, n)[2]

\* uint32(a)
U32(a) == <<a[1], a[2], 0, 0>>

\* bits.RotateLeft32(a, k) for a uint32 a and any integer k
RotateLeft32(a, k) == U32(Or64(Shl64(a, k % 32), Shr64(a, 32 - (k % 32))))

\* A Go int n is <= 0 when it is zero or its sign bit is set.
IntLeqZero(n) == n = Zero64 \/ n[4] >= 2^15

\* The value of a Go int in 0..2^31-1 as a number (used to index arrays).
IntVal(n) == n[1] + Limb * n[2]

\* Whether the Go int n is a valid index of an array of length len < 2^16.
InRange(n, len) == n[4] = 0 /\ n[3] = 0 /\ n[2] = 0 /\ n[1] < len

----------------------------------------------------------------------------
(* Floating point: a float is [m |-> word, e |-> exponent], the number     *)
(* m * 2^e.                                                                *)

RECURSIVE BitLenLimb(_)
BitLenLimb(x) == IF x = 0 THEN 0 ELSE 1 + BitLenLimb(x \div 2)

\* The number of significant bits of a.
BitLen64(a) ==
    IF a[4] # 0 THEN 48 + BitLenLimb(a[4])
    ELSE IF a[3] # 0 THEN 32 + BitLenLimb(a[3])
    ELSE IF a[2] # 0 THEN 16 + BitLenLimb(a[2])
    ELSE BitLenLimb(a[1])

\* a >> sh rounded to nearest, ties to even, for sh > 0: q is a >> sh and rem
\* the bits shifted out.
RoundShift(q, rem, half) ==
    IF Lt64(half, rem) \/ (rem = half /\ q[1] % 2 = 1) THEN Add64(q, One64) ELSE q

\* The conversion of the unsigned integer a to a float with a mantissa of
\* `bits` bits (float64(a): 53, float32(a): 24), rounding to nearest, ties to
\* even.
ToFloat(a, bits) ==
    Let(BitLen64(a) - bits, LAMBDA sh :
        IF sh <= 0 THEN [m |-> a, e |-> 0]
        ELSE Let(Shr64(a, sh), LAMBDA q :
                 [m |-> RoundShift(q, Sub64(a, Shl64(q, sh)), Shl64(One64, sh - 1)),
                  e |-> sh]))

\* f / 2^k and f * (1 / 2^k): exact for the powers of two the code uses.
FloatDivPow2(f, k) == [m |-> f.m, e |-> f.e - k]

\* f < 1
FloatLtOne(f) ==
    \/ f.m = Zero64
    \/ BitLen64(f.m) + f.e <= 0

----------------------------------------------------------------------------
(* PCG-32.  An extraction call returns [g |-> generator after the call,    *)
(* out |-> value returned]; Int adds panic |-> whether the call panicked.  *)

\* 6364136223846793005
PCG32_MULT == W(\H5851, \HF42D, \H4C95, \H7F2D)

PCG32_Zero == [state |-> Zero64, inc |-> Zero64]

\* xorshifted is uint32(((oldState >> 18) ^ oldState) >> 27), rot is
\* uint32(oldState >> 59)
PCG32_Next(p) ==
    [g   |-> [state |-> Add64(Mul64(p.state, PCG32_MULT), p.inc), inc |-> p.inc],
     out |-> RotateLeft32(U32(Shr64(Xor64(Shr64(p.state, 18), p.state), 27)),
                          0 - IntVal(U32(Shr64(p.state, 59))))]

\* A faulty substitution, which reads the clock whatever the argument: the
\* determinism of Seed(s) for s # 0 must not survive it.
SeedAlwaysNow(seed0, now) == now

\* The seed Seed works with: the clock when the argument is zero.
SeedOrNow(seed0, now) == IF seed0 = Zero64 THEN now ELSE seed0

\* Seed once the seed is chosen: state = 0, inc = (seed << 1) | 1, Next(),
\* state += seed, Next()
PCG32_SeedWith(seed) ==
    Let(PCG32_Next([state |-> Zero64, inc |-> Or64(Shl64(seed, 1), One64)]).g,
        LAMBDA p2 : PCG32_Next([p2 EXCEPT !.state = Add64(p2.state, seed)]).g)

\* now is uint64(time.Now().UnixNano()) at the call
PCG32_Seed(p, seed0, now) == PCG32_SeedWith(SeedOrNow(seed0, now))

PCG32_New(now) == PCG32_Seed(PCG32_Zero, now, now)

PCG32_Reset(p, now) == PCG32_Seed(p, now, now)

PCG32_State(p) == <<p.state, p.inc>>

PCG32_Float64(p) ==
    Let(PCG32_Next(p), LAMBDA r :
        [g |-> r.g, out |-> FloatDivPow2(ToFloat(r.out, 53), 32)])

PCG32_Float32(p) ==
    Let(PCG32_Next(p), LAMBDA r :
        [g |-> r.g, out |-> FloatDivPow2(ToFloat(r.out, 24), 32)])

PCG32_Int32(p) ==
    Let(PCG32_Next(p), LAMBDA r : [g |-> r.g, out |-> Shr64(r.out, 1)])

\* for v > max { v = Next() }: r is the draw in hand
RECURSIVE PCG32_Redraw(_, _)
PCG32_Redraw(r, max) ==
    IF Lt64(max, r.out) THEN PCG32_Redraw(PCG32_Next(r.g), max) ELSE r

\* max := uint32((1 << 31) - 1 - (1<<31)%uint32(n)), for uint32(n) # 0
PCG32_IntMax(n) ==
    U32(Sub64(Sub64(Shl64(One64, 31), One64), Mod64(Shl64(One64, 31), U32(n))))

\* Int(n): panic is TRUE when the call panics (n <= 0, or a division by zero)
PCG32_Int(p, n) ==
    IF IntLeqZero(n) THEN [g |-> p, out |-> Zero64, panic |-> TRUE]
    ELSE IF And64(n, Sub64(n, One64)) = Zero64
    THEN Let(PCG32_Next(p), LAMBDA r :
             [g |-> r.g, out |-> And64(r.out, U32(Sub64(n, One64))), panic |-> FALSE])
    ELSE IF U32(n) = Zero64 THEN [g |-> p, out |-> Zero64, panic |-> TRUE]
    ELSE Let(PCG32_Redraw(PCG32_Next(p), PCG32_IntMax(n)), LAMBDA r :
             [g |-> r.g, out |-> Mod64(r.out, U32(n)), panic |-> FALSE])

----------------------------------------------------------------------------
(* 128-bit helpers and PCG-64                                              *)

U128(lo, hi) == [low |-> lo, high |-> hi]

\* if low < x { high++ }
CarryInto(low, high, x) ==
    U128(low, IF Lt64(low, x) THEN Add64(high, One64) ELSE high)

add128(a, b) == CarryInto(Add64(a.low, b.low), Add64(a.high, b.high), a.low)

\* The tail of mul128 once z0, z2 and z1 are computed: a shift of a uint64
\* by 64 is zero in Go.
mul128Sum(z0, z2, z1) ==
    CarryInto(Add64(z0, Shl64(z1, 64)), Add64(z2, Shr64(z1, 64)), z0)

mul128Parts(a, b, z0, z2) ==
    mul128Sum(z0, z2,
              Sub64(Sub64(Mul64(Add64(a.low, a.high), Add64(b.low, b.high)), z0), z2))

mul128(a, b) ==
    IF a.high = Zero64 /\ b.high = Zero64
    THEN U128(Mul64(a.low, b.low), Zero64)
    ELSE mul128Parts(a, b, Mul64(a.low, b.low), Mul64(a.high, b.high))

PCG64_MULT == U128(W(\H5851, \HF42D, \H4C95, \H7F2D), W(\H1405, \H7B7E, \HF767, \H814F))

PCG64_Zero == [state |-> U128(Zero64, Zero64), inc |-> U128(Zero64, Zero64)]

\* xorshifted of Next, from x = oldState.high ^ oldState.low
PCG64_xorshifted(x) == Or64(Shr64(x, 29), Shl64(x, 35))

PCG64_Next(p) ==
    [g   |-> [state |-> add128(mul128(p.state, PCG64_MULT), p.inc), inc |-> p.inc],
     out |-> RotateLeft64(PCG64_xorshifted(Xor64(p.state.high, p.state.low)),
                          0 - IntVal(Shr64(p.state.high, 58)))]

PCG64_SeedWith(seed) ==
    Let(PCG64_Next([state |-> U128(Zero64, Zero64),
                    inc   |-> U128(Or64(seed, One64), Zero64)]).g,
        LAMBDA p2 : PCG64_Next([p2 EXCEPT !.state = add128(p2.state, p2.inc)]).g)

PCG64_Seed(p, seed0, now) == PCG64_SeedWith(SeedOrNow(seed0, now))

PCG64_New(now) == PCG64_Seed(PCG64_Zero, now, now)

PCG64_Reset(p, now) == PCG64_Seed(p, now, now)

PCG64_State(p) == <<p.state.low, p.state.high, p.inc.low, p.inc.high>>

\* float64(v >> (64 - 53)) / (1 << 53) of a 64-bit output v
Float64Of(v) == FloatDivPow2(ToFloat(Shr64(v, 64 - 53), 53), 53)

\* float32(v >> (32 - 24)) / (1 << 24) of a 32-bit output v
Float32Of(v) == FloatDivPow2(ToFloat(Shr64(v, 32 - 24), 24), 24)

PCG64_Float64(p) ==
    Let(PCG64_Next(p), LAMBDA r : [g |-> r.g, out |-> Float64Of(r.out)])

PCG64_Int64(p) ==
    Let(PCG64_Next(p), LAMBDA r : [g |-> r.g, out |-> Shr64(r.out, 1)])

PCG64_Uint32(p) ==
    Let(PCG64_Next(p), LAMBDA r : [g |-> r.g, out |-> U32(Shr64(r.out, 32))])

PCG64_Int32(p) ==
    Let(PCG64_Uint32(p), LAMBDA r : [g |-> r.g, out |-> Shr64(r.out, 1)])

PCG64_Float32(p) ==
    Let(PCG64_Uint32(p), LAMBDA r : [g |-> r.g, out |-> Float32Of(r.out)])

\* max := uint64((1 << 63) - 1 - (1<<63)%uint64(n)), shared by the 64-bit Int
IntMax64(n) ==
    Sub64(Sub64(Shl64(One64, 63), One64), Mod64(Shl64(One64, 63), n))

RECURSIVE PCG64_Redraw(_, _)
PCG64_Redraw(r, max) ==
    IF Lt64(max, r.out) THEN PCG64_Redraw(PCG64_Next(r.g), max) ELSE r

PCG64_Int(p, n) ==
    IF IntLeqZero(n) THEN [g |-> p, out |-> Zero64, panic |-> TRUE]
    ELSE IF And64(n, Sub64(n, One64)) = Zero64
    THEN Let(PCG64_Next(p), LAMBDA r :
             [g |-> r.g, out |-> And64(r.out, Sub64(n, One64)), panic |-> FALSE])
    ELSE Let(PCG64_Redraw(PCG64_Next(p), IntMax64(n)), LAMBDA r :
             [g |-> r.g, out |-> Mod64(r.out, n), panic |-> FALSE])

----------------------------------------------------------------------------
(* SplitMix64                                                              *)

SM_GAMMA == W(\H9E37, \H79B9, \H7F4A, \H7C15)

SM_MIX1 == W(\HBF58, \H476D, \H1CE4, \HE5B9)

SM_MIX2 == W(\H94D0, \H49BB, \H1331, \H11EB)

SplitMix64_Zero == [state |-> Zero64]

\* z = (z ^ (z >> k)) * c
SM_Mix(z, k, c) == Mul64(Xor64(z, Shr64(z, k)), c)

\* return z ^ (z >> 31)
SM_Final(z) == Xor64(z, Shr64(z, 31))

SplitMix64_Uint64(x) ==
    Let(Add64(x.state, SM_GAMMA), LAMBDA st :
        [g |-> [state |-> st], out |-> SM_Final(SM_Mix(SM_Mix(st, 30, SM_MIX1), 27, SM_MIX2))])

SplitMix64_Seed(x, seed, now) == [state |-> seed]

SplitMix64_New(now) == SplitMix64_Seed(SplitMix64_Zero, now, now)

SplitMix64_Reset(x, now) == SplitMix64_Seed(x, now, now)

SplitMix64_State(x) == x.state

SplitMix64_Int64(x) ==
    Let(SplitMix64_Uint64(x), LAMBDA r : [g |-> r.g, out |-> Shr64(r.out, 1)])

SplitMix64_Uint32(x) ==
    Let(SplitMix64_Uint64(x), LAMBDA r : [g |-> r.g, out |-> U32(Shr64(r.out, 32))])

SplitMix64_Int32(x) ==
    Let(SplitMix64_Uint32(x), LAMBDA r : [g |-> r.g, out |-> Shr64(r.out, 1)])

SplitMix64_Float64(x) ==
    Let(SplitMix64_Uint64(x), LAMBDA r : [g |-> r.g, out |-> Float64Of(r.out)])

SplitMix64_Float32(x) ==
    Let(SplitMix64_Uint32(x), LAMBDA r : [g |-> r.g, out |-> Float32Of(r.out)])

RECURSIVE SplitMix64_Redraw(_, _)
SplitMix64_Redraw(r, max) ==
    IF Lt64(max, r.out) THEN SplitMix64_Redraw(SplitMix64_Uint64(r.g), max) ELSE r

SplitMix64_Int(x, n) ==
    IF IntLeqZero(n) THEN [g |-> x, out |-> Zero64, panic |-> TRUE]
    ELSE IF And64(n, Sub64(n, One64)) = Zero64
    THEN Let(SplitMix64_Uint64(x), LAMBDA r :
             [g |-> r.g, out |-> And64(r.out, Sub64(n, One64)), panic |-> FALSE])
    ELSE Let(SplitMix64_Redraw(SplitMix64_Uint64(x), IntMax64(n)), LAMBDA r :
             [g |-> r.g, out |-> Mod64(r.out, n), panic |-> FALSE])

----------------------------------------------------------------------------
(* Xoshiro256**: state[i] of the code is state[i + 1] here                 *)

Xoshiro_Zero == [state |-> <<Zero64, Zero64, Zero64, Zero64>>]

\* The closure splitmix64 of Seed, called on the local s: the new s is .g.state
\* and the result .out.
Xoshiro_splitmix64(s) == SplitMix64_Uint64([state |-> s])

\* x.state[i] = splitmix64(&s), for i = 0, 1, 2, 3 in turn: st = <<state, s>>
Xoshiro_SeedStep(st, i) ==
    Let(Xoshiro_splitmix64(st[2]), LAMBDA r :
        <<[st[1] EXCEPT ![i + 1] = r.out], r.g.state>>)

Xoshiro_Seed(x, seed0, now) ==
    [state |-> ForLoop(Xoshiro_SeedStep, <<x.state, SeedOrNow(seed0, now)>>,
                       0, Len(x.state))[1]]

\* The state update with t := x.state[1] << 16 in place of << 17.
Xoshiro_AdvanceShift16(s0, s1, s2, s3) ==
    <<Xor64(s0, Xor64(s3, s1)), Xor64(s1, Xor64(s2, s0)),
      Xor64(Xor64(s2, s0), Shl64(s1, 16)), RotateLeft64(Xor64(s3, s1), 45)>>

\* The state update of Uint64 from t = s[1] << 17 on, written on the four
\* words s0..s3 (s2 ^= s0; s3 ^= s1; s1 ^= s2; s0 ^= s3; s2 ^= t;
\* s3 = rotl(s3, 45)).
Xoshiro_Advance(s0, s1, s2, s3) ==
    <<Xor64(s0, Xor64(s3, s1)), Xor64(s1, Xor64(s2, s0)),
      Xor64(Xor64(s2, s0), Shl64(s1, 17)), RotateLeft64(Xor64(s3, s1), 45)>>

\* The state after Uint64(): lines t := ...; x.state[..] ^= ...; RotateLeft64.
Xoshiro_Step(x) ==
    [state |-> Xoshiro_Advance(x.state[1], x.state[2], x.state[3], x.state[4])]

\* result := bits.RotateLeft64(x.state[1]*5, 7) * 9
Xoshiro_Result(x) == Mul64(RotateLeft64(Mul64(x.state[2], Nat64(5)), 7), Nat64(9))

Xoshiro_Uint64(x) == [g |-> Xoshiro_Step(x), out |-> Xoshiro_Result(x)]

\* "Warm up" the generator: ten outputs are discarded
Xoshiro_WarmUp(x) == ForLoop(LAMBDA g, i : Xoshiro_Uint64(g).g, x, 0, 10)

Xoshiro_New(now) == Xoshiro_WarmUp(Xoshiro_Seed(Xoshiro_Zero, now, now))

Xoshiro_Reset(x, now) == Xoshiro_Seed(x, now, now)

Xoshiro_State(x) == x.state

JUMP ==
    << W(\H180E, \HC6D3, \H3CFD, \H0ABA), W(\HD5A6, \H1266, \HF0C9, \H392C),
       W(\HA958, \H2618, \HE03F, \HC9AA), W(\H39AB, \HDC45, \H29B1, \H661C) >>

LONG_JUMP ==
    << W(\H76E1, \H5D3E, \HFEFD, \HCBBF), W(\HC500, \H4E44, \H1C52, \H2FB3),
       W(\H7771, \H0069, \H854E, \HE241), W(\H3910, \H9BB0, \H2ACB, \HE635) >>

\* An accumulator that adds instead: s0 += x.state[0]; ...; s3 += x.state[3]
AddState(s, t) ==
    <<Add64(s[1], t[1]), Add64(s[2], t[2]), Add64(s[3], t[3]), Add64(s[4], t[4])>>

\* s0 ^= x.state[0]; ...; s3 ^= x.state[3]
XorState(s, t) ==
    <<Xor64(s[1], t[1]), Xor64(s[2], t[2]), Xor64(s[3], t[3]), Xor64(s[4], t[4])>>

\* The loop body of Jump and LongJump for i = k / 64, b = k % 64:
\* st = <<accumulator s0..s3, generator>>.  The value of x.Uint64() is
\* discarded there, so only its effect on the state is taken.
Xoshiro_JumpStep(jump, st, k) ==
    <<IF BitAt(jump[(k \div 64) + 1], k % 64) # 0 THEN XorState(st[1], st[2].state)
      ELSE st[1],
      Xoshiro_Step(st[2])>>

\* The two nested loops: <<s0..s3, the generator after Len(jump) * 64 steps>>
Xoshiro_JumpLoop(jump, x) ==
    ForLoop(LAMBDA st, k : Xoshiro_JumpStep(jump, st, k),
            <<Xoshiro_Zero.state, x>>, 0, Len(jump) * 64)

\* x.state[0], x.state[1], x.state[2], x.state[3] = s0, s1, s2, s3
Xoshiro_JumpWith(jump, x) == [state |-> Xoshiro_JumpLoop(jump, x)[1]]

Xoshiro_Jump(x) == Xoshiro_JumpWith(JUMP, x)

Xoshiro_LongJump(x) == Xoshiro_JumpWith(LONG_JUMP, x)

Xoshiro_Int64(x) ==
    Let(Xoshiro_Uint64(x), LAMBDA r : [g |-> r.g, out |-> Shr64(r.out, 1)])

Xoshiro_Uint32(x) ==
    Let(Xoshiro_Uint64(x), LAMBDA r : [g |-> r.g, out |-> U32(Shr64(r.out, 32))])

Xoshiro_Int32(x) ==
    Let(Xoshiro_Uint32(x), LAMBDA r : [g |-> r.g, out |-> Shr64(r.out, 1)])

Xoshiro_Float64(x) ==
    Let(Xoshiro_Uint64(x), LAMBDA r : [g |-> r.g, out |-> Float64Of(r.out)])

Xoshiro_Float32(x) ==
    Let(Xoshiro_Uint32(x), LAMBDA r : [g |-> r.g, out |-> Float32Of(r.out)])

RECURSIVE Xoshiro_Redraw(_, _)
Xoshiro_Redraw(r, max) ==
    IF Lt64(max, r.out) THEN Xoshiro_Redraw(Xoshiro_Uint64(r.g), max) ELSE r

Xoshiro_Int(x, n) ==
    IF IntLeqZero(n) THEN [g |-> x, out |-> Zero64, panic |-> TRUE]
    ELSE IF And64(n, Sub64(n, One64)) = Zero64
    THEN Let(Xoshiro_Uint64(x), LAMBDA r :
             [g |-> r.g, out |-> And64(r.out, Sub64(n, One64)), panic |-> FALSE])
    ELSE Let(Xoshiro_Redraw(Xoshiro_Uint64(x), IntMax64(n)), LAMBDA r :
             [g |-> r.g, out |-> Mod64(r.out, n), panic |-> FALSE])

----------------------------------------------------------------------------
(* MIXMAX: state[i] of the code is state[i + 1] here; counter is a Go int  *)

N == 240

\* 0xfffffffffffffffe
MOD == W(\HFFFF, \HFFFF, \HFFFF, \HFFFE)

\* TWOM = 1.0 / (1 << 61)
TWOM_EXP == 61

\* 6364136223846793005
MIXMAX_MULT == W(\H5851, \HF42D, \H4C95, \H7F2D)

MIXMAX_Zero == [state |-> [i \in 1..N |-> Zero64], counter |-> Zero64]

\* m.state[i] = (m.state[i-1]*6364136223846793005 + 1) & MOD
MIXMAX_SeedStep(st, i) ==
    [st EXCEPT ![i + 1] = And64(Add64(Mul64(st[i], MIXMAX_MULT), One64), MOD)]

MIXMAX_Seed(m, seed0, now) ==
    [state   |-> ForLoop(MIXMAX_SeedStep,
                         [m.state EXCEPT ![1] = SeedOrNow(seed0, now)], 1, N),
     counter |-> Zero64]

\* if v < t { v++ }
MIXMAX_Bump(v, t) == IF Lt64(v, t) THEN Add64(v, One64) ELSE v

\* t = m.state[(i+1)%N]; m.state[i] = (m.state[i] + t) & MOD; if ... < t { ...++ }
MIXMAX_iterateStep(st, i) ==
    [st EXCEPT ![i + 1] = MIXMAX_Bump(And64(Add64(st[i + 1], st[((i + 1) % N) + 1]), MOD),
                                     st[((i + 1) % N) + 1])]

MIXMAX_iterate(m) ==
    [state |-> ForLoop(MIXMAX_iterateStep, m.state, 0, N), counter |-> Nat64(N)]

\* A faulty read, which hands the array out in ascending order.
MIXMAX_TakeAscending(m) ==
    IF InRange(m.counter, N)
    THEN [g |-> m, out |-> m.state[N - IntVal(m.counter)], panic |-> FALSE]
    ELSE [g |-> m, out |-> Zero64, panic |-> TRUE]

\* m.counter--; return m.state[m.counter], which panics when the index
\* m.counter is outside the array
MIXMAX_Take(m) ==
    IF InRange(m.counter, N)
    THEN [g |-> m, out |-> m.state[IntVal(m.counter) + 1], panic |-> FALSE]
    ELSE [g |-> m, out |-> Zero64, panic |-> TRUE]

MIXMAX_Decrement(m) == MIXMAX_Take([m EXCEPT !.counter = Sub64(m.counter, One64)])

MIXMAX_Uint64(m) ==
    MIXMAX_Decrement(IF m.counter = Zero64 THEN MIXMAX_iterate(m) ELSE m)

MIXMAX_WarmUp(m) == ForLoop(LAMBDA g, i : MIXMAX_Uint64(g).g, m, 0, 10)

MIXMAX_New(now) == MIXMAX_WarmUp(MIXMAX_Seed(MIXMAX_Zero, now, now))

MIXMAX_Reset(m, now) == MIXMAX_Seed(m, now, now)

MIXMAX_State(m) == m.state

MIXMAX_Float64(m) ==
    Let(MIXMAX_Uint64(m), LAMBDA r :
        [g |-> r.g, out |-> FloatDivPow2(ToFloat(r.out, 53), TWOM_EXP), panic |-> r.panic])

MIXMAX_Int64(m) ==
    Let(MIXMAX_Uint64(m), LAMBDA r :
        [g |-> r.g, out |-> Shr64(r.out, 1), panic |-> r.panic])

----------------------------------------------------------------------------
(* Binary state format: encoding/binary, little endian                     *)

\* make([]byte, n)
MakeBytes(n) == [i \in 1..n |-> 0] \o <<>>

\* The eight bytes of w, lowest first.
BytesOf(w) ==
    <<w[1] % Byte, w[1] \div Byte, w[2] % Byte, w[2] \div Byte,
      w[3] % Byte, w[3] \div Byte, w[4] % Byte, w[4] \div Byte>>

\* binary.LittleEndian.PutUint64(b[off:], w)
PutUint64(b, off, w) ==
    SubSeq(b, 1, off) \o BytesOf(w) \o SubSeq(b, off + 9, Len(b))

\* A faulty reading, most significant byte first: what PutUint64 wrote must
\* not come back through it.
Uint64AtBigEndian(data, off) ==
    <<data[off + 8] + Byte * data[off + 7], data[off + 6] + Byte * data[off + 5],
      data[off + 4] + Byte * data[off + 3], data[off + 2] + Byte * data[off + 1]>>

\* binary.LittleEndian.Uint64(data[off:])
Uint64At(data, off) ==
    <<data[off + 1] + Byte * data[off + 2], data[off + 3] + Byte * data[off + 4],
      data[off + 5] + Byte * data[off + 6], data[off + 7] + Byte * data[off + 8]>>

Nil == "nil"

PCG32_Marshal(p) ==
    PutUint64(PutUint64(MakeBytes(16), 0, p.state), 8, p.inc)

PCG32_Unmarshal(p, data) ==
    IF Len(data) # 16 THEN [g |-> p, err |-> "pcg32: invalid state length"]
    ELSE [g |-> [state |-> Uint64At(data, 0), inc |-> Uint64At(data, 8)], err |-> Nil]

PCG64_Marshal(p) ==
    PutUint64(PutUint64(PutUint64(PutUint64(MakeBytes(32), 0, p.state.low),
                                  8, p.state.high),
                        16, p.inc.low),
              24, p.inc.high)

PCG64_Unmarshal(p, data) ==
    IF Len(data) # 32 THEN [g |-> p, err |-> "pcg64: invalid state length"]
    ELSE [g |-> [state |-> U128(Uint64At(data, 0), Uint64At(data, 8)),
                 inc   |-> U128(Uint64At(data, 16), Uint64At(data, 24))],
          err |-> Nil]

SplitMix64_Marshal(x) == PutUint64(MakeBytes(8), 0, x.state)

SplitMix64_Unmarshal(x, data) ==
    IF Len(data) # 8 THEN [g |-> x, err |-> "splitmix64: invalid state length"]
    ELSE [g |-> [state |-> Uint64At(data, 0)], err |-> Nil]

Xoshiro_Marshal(x) ==
    ForLoop(LAMBDA b, i : PutUint64(b, i * 8, x.state[i + 1]),
            MakeBytes(32), 0, Len(x.state))

Xoshiro_Unmarshal(x, data) ==
    IF Len(data) # 32
    THEN [g |-> x, err |-> "xoshiro256starstar: invalid state length"]
    ELSE [g |-> [state |-> ForLoop(LAMBDA st, i : [st EXCEPT ![i + 1] = Uint64At(data, i * 8)],
                                   x.state, 0, Len(x.state))],
          err |-> Nil]

MIXMAX_Marshal(m) ==
    PutUint64(ForLoop(LAMBDA b, i : PutUint64(b, i * 8, m.state[i + 1]),
                      MakeBytes(N * 8 + 8), 0, N),
              N * 8, m.counter)

\* A faulty Unmarshal, which writes the state before it tests the length.
MIXMAX_UnmarshalThenTest(m, data) ==
    [g   |-> [state |-> m.state, counter |-> Nat64(Len(data))],
     err |-> IF Len(data) # N * 8 + 8 THEN "mixmax: invalid state length" ELSE Nil]

MIXMAX_Unmarshal(m, data) ==
    IF Len(data) # N * 8 + 8 THEN [g |-> m, err |-> "mixmax: invalid state length"]
    ELSE [g |-> [state   |-> ForLoop(LAMBDA st, i : [st EXCEPT ![i + 1] = Uint64At(data, i * 8)],
                                     m.state, 0, N),
                 counter |-> Uint64At(data, N * 8)],
          err |-> Nil]

----------------------------------------------------------------------------
(* The five families behind one interface.                                 *)

Families == {"pcg32", "pcg64", "splitmix64", "xoshiro256starstar", "mixmax"}

\* The zero value of the family's struct (&PCG32{} and so on).
ZeroOf(k) ==
    CASE k = "pcg32" -> PCG32_Zero
      [] k = "pcg64" -> PCG64_Zero
      [] k = "splitmix64" -> SplitMix64_Zero
      [] k = "xoshiro256starstar" -> Xoshiro_Zero
      [] k = "mixmax" -> MIXMAX_Zero

SeedOf(k, g, seed, now) ==
    CASE k = "pcg32" -> PCG32_Seed(g, seed, now)
      [] k = "pcg64" -> PCG64_Seed(g, seed, now)
      [] k = "splitmix64" -> SplitMix64_Seed(g, seed, now)
      [] k = "xoshiro256starstar" -> Xoshiro_Seed(g, seed, now)
      [] k = "mixmax" -> MIXMAX_Seed(g, seed, now)

\* New() and NewSafe(), which run the same statements.
NewOf(k, now) ==
    CASE k = "pcg32" -> PCG32_New(now)
      [] k = "pcg64" -> PCG64_New(now)
      [] k = "splitmix64" -> SplitMix64_New(now)
      [] k = "xoshiro256starstar" -> Xoshiro_New(now)
      [] k = "mixmax" -> MIXMAX_New(now)

ResetOf(k, g, now) ==
    CASE k = "pcg32" -> PCG32_Reset(g, now)
      [] k = "pcg64" -> PCG64_Reset(g, now)
      [] k = "splitmix64" -> SplitMix64_Reset(g, now)
      [] k = "xoshiro256starstar" -> Xoshiro_Reset(g, now)
      [] k = "mixmax" -> MIXMAX_Reset(g, now)

\* The extraction methods without argument that the family has; "Next" is
\* the native one (Next of the PCGs, Uint64 of the others).
Methods(k) ==
    CASE k = "pcg32" -> {"Next", "Float64", "Float32", "Int32"}
      [] k = "mixmax" -> {"Next", "Float64", "Int64"}
      [] OTHER -> {"Next", "Float64", "Float32", "Int64", "Int32", "Uint32"}

NoPanic(r) == [g |-> r.g, out |-> r.out, panic |-> FALSE]

PCG32_Call(meth, g) ==
    CASE meth = "Next" -> PCG32_Next(g)
      [] meth = "Float64" -> PCG32_Float64(g)
      [] meth = "Float32" -> PCG32_Float32(g)
      [] meth = "Int32" -> PCG32_Int32(g)

PCG64_Call(meth, g) ==
    CASE meth = "Next" -> PCG64_Next(g)
      [] meth = "Float64" -> PCG64_Float64(g)
      [] meth = "Float32" -> PCG64_Float32(g)
      [] meth = "Int64" -> PCG64_Int64(g)
      [] meth = "Int32" -> PCG64_Int32(g)
      [] meth = "Uint32" -> PCG64_Uint32(g)

SplitMix64_Call(meth, g) ==
    CASE meth = "Next" -> SplitMix64_Uint64(g)
      [] meth = "Float64" -> SplitMix64_Float64(g)
      [] meth = "Float32" -> SplitMix64_Float32(g)
      [] meth = "Int64" -> SplitMix64_Int64(g)
      [] meth = "Int32" -> SplitMix64_Int32(g)
      [] meth = "Uint32" -> SplitMix64_Uint32(g)

Xoshiro_Call(meth, g) ==
    CASE meth = "Next" -> Xoshiro_Uint64(g)
      [] meth = "Float64" -> Xoshiro_Float64(g)
      [] meth = "Float32" -> Xoshiro_Float32(g)
      [] meth = "Int64" -> Xoshiro_Int64(g)
      [] meth = "Int32" -> Xoshiro_Int32(g)
      [] meth = "Uint32" -> Xoshiro_Uint32(g)

MIXMAX_Call(meth, g) ==
    CASE meth = "Next" -> MIXMAX_Uint64(g)
      [] meth = "Float64" -> MIXMAX_Float64(g)
      [] meth = "Int64" -> MIXMAX_Int64(g)

\* One extraction call: [g |-> state after, out |-> value, panic |-> BOOLEAN]
CallOf(k, meth, g) ==
    CASE k = "pcg32" -> NoPanic(PCG32_Call(meth, g))
      [] k = "pcg64" -> NoPanic(PCG64_Call(meth, g))
      [] k = "splitmix64" -> NoPanic(SplitMix64_Call(meth, g))
      [] k = "xoshiro256starstar" -> NoPanic(Xoshiro_Call(meth, g))
      [] k = "mixmax" -> MIXMAX_Call(meth, g)

\* The families with an Int method.
HasInt(k) == k # "mixmax"

IntOf(k, g, n) ==
    CASE k = "pcg32" -> PCG32_Int(g, n)
      [] k = "pcg64" -> PCG64_Int(g, n)
      [] k = "splitmix64" -> SplitMix64_Int(g, n)
      [] k = "xoshiro256starstar" -> Xoshiro_Int(g, n)

\* The bound max that Int(n) computes when n is not a power of two.
IntMaxOf(k, n) == IF k = "pcg32" THEN PCG32_IntMax(n) ELSE IntMax64(n)

\* The largest raw output: Next() is a uint32 in PCG-32, a uint64 elsewhere.
NativeMax(k) == IF k = "pcg32" THEN U32(Max64) ELSE Max64

MarshalOf(k, g) ==
    CASE k = "pcg32" -> PCG32_Marshal(g)
      [] k = "pcg64" -> PCG64_Marshal(g)
      [] k = "splitmix64" -> SplitMix64_Marshal(g)
      [] k = "xoshiro256starstar" -> Xoshiro_Marshal(g)
      [] k = "mixmax" -> MIXMAX_Marshal(g)

UnmarshalOf(k, g, data) ==
    CASE k = "pcg32" -> PCG32_Unmarshal(g, data)
      [] k = "pcg64" -> PCG64_Unmarshal(g, data)
      [] k = "splitmix64" -> SplitMix64_Unmarshal(g, data)
      [] k = "xoshiro256starstar" -> Xoshiro_Unmarshal(g, data)
      [] k = "mixmax" -> MIXMAX_Unmarshal(g, data)

\* The families with a Safe variant (there is no SafePCG32).
SafeFamilies == {"pcg64", "splitmix64", "xoshiro256starstar", "mixmax"}

\* Whether the Safe variant of family k has its own method op, which takes
\* the mutex (mu.Lock(); defer mu.Unlock()) around the base method.  SafePCG64
\* declares State, Reset, Seed, Next and Float64 only: its other methods are
\* those of the embedded PCG64, promoted, and take no lock.
Locks(k, op) ==
    IF k = "pcg64" THEN op \in {"State", "Reset", "Seed", "Next", "Float64"}
    ELSE TRUE

\* SafeSplitMix64.Int and SafeXoshiro256StarStar.Int test n <= 0 and panic
\* before they take the mutex.
PanicsBeforeLock(k, c) ==
    k \in {"splitmix64", "xoshiro256starstar"} /\ c.op = "Int" /\ IntLeqZero(c.arg)

\* A faulty wrapper, which unlocks before its return statement and so not
\* when the base method panics.
UnlocksOnReturn(k, op, panicked) == Locks(k, op) /\ ~panicked

\* defer mu.Unlock(): the wrapper that locked unlocks when it is left, by a
\* return or by a panic.
Unlocks(k, op, panicked) == Locks(k, op)

\* A call c = [op, arg, data] run on the state g at clock reading now:
\* [g |-> state after, panic, err, wrote |-> whether it assigns to the state]
Apply(k, c, g, now) ==
    CASE c.op = "Seed" ->
            [g |-> SeedOf(k, g, c.arg, now), panic |-> FALSE, err |-> Nil, wrote |-> TRUE]
      [] c.op = "Reset" ->
            [g |-> ResetOf(k, g, now), panic |-> FALSE, err |-> Nil, wrote |-> TRUE]
      [] c.op \in {"State", "Marshal"} ->
            [g |-> g, panic |-> FALSE, err |-> Nil, wrote |-> FALSE]
      [] c.op = "Unmarshal" ->
            Let(UnmarshalOf(k, g, c.data), LAMBDA r :
                [g |-> r.g, panic |-> FALSE, err |-> r.err, wrote |-> r.err = Nil])
      [] c.op = "Jump" ->
            [g |-> Xoshiro_Jump(g), panic |-> FALSE, err |-> Nil, wrote |-> TRUE]
      [] c.op = "LongJump" ->
            [g |-> Xoshiro_LongJump(g), panic |-> FALSE, err |-> Nil, wrote |-> TRUE]
      [] c.op = "Int" ->
            Let(IntOf(k, g, c.arg), LAMBDA r :
                [g |-> r.g, panic |-> r.panic, err |-> Nil, wrote |-> r.g # g])
      [] OTHER ->
            Let(CallOf(k, c.op, g), LAMBDA r :
                [g |-> r.g, panic |-> r.panic, err |-> Nil, wrote |-> TRUE])

----------------------------------------------------------------------------
(* The state machine.                                                      *)
(*   kind     the generator family under test                              *)
(*   gen      the state of each instance                                   *)
(*   clock    the reading of time.Now().UnixNano(), as ticks after Epoch   *)
(*   seedArg  per instance, the argument and the clock of its last Seed    *)
(*   outs     per instance, the calls made since it was last seeded or     *)
(*            restored, each <<method, argument, result>>                  *)
(*   buf      the bytes the last Marshal returned, and the state it read   *)
(*   last     the last call: its name, instance, argument, result and the  *)
(*            state it started from                                        *)
(*   pc, mu   the goroutines calling a Safe instance, and the goroutine    *)
(*            that holds its mutex (0: unlocked)                           *)
(*   snap     the MIXMAX array as the last iterate() left it               *)
(*   cert     the polynomial certificate of the Xoshiro256** jump tables   *)
(*   steps    the calls made since the last Seed (SpecJump: the squarings) *)

Inst == {1, 2}

Procs == {1, 2}

\* time.Now().UnixNano() at clock c: some instant of the year 2026.
Epoch == W(\H18D5, \H2F00, \H0000, \H0000)

Now(c) == Add64(Epoch, Nat64(c))

NoSeed == [seed |-> Zero64, at |-> 0 - 1]

NoCall == [op |-> "none", inst |-> 0, panic |-> FALSE]

NoBuf == [data |-> <<>>, src |-> Nil]

NoCert == [power |-> <<>>, basis |-> 0, bad |-> {}]

\* A goroutine outside any call.
Outside == [at |-> "idle", call |-> NoCall, seen |-> Nil, locked |-> FALSE, panic |-> FALSE]

Idle == [p \in Procs |-> Outside]

\* Seed(seed) on instance i
DoSeed(i, seed) ==
    /\ gen' = [gen EXCEPT ![i] = SeedOf(kind, gen[i], seed, Now(clock))]
    /\ seedArg' = [seedArg EXCEPT ![i] = [seed |-> seed, at |-> clock]]
    /\ outs' = [outs EXCEPT ![i] = <<>>]
    /\ last' = [op |-> "Seed", inst |-> i, panic |-> FALSE, arg |-> seed]
    /\ steps' = 0
    /\ UNCHANGED <<kind, clock, buf, pc, mu, snap, cert>>

\* The clock advances between two calls.
Tick ==
    /\ clock' = clock + 1
    /\ UNCHANGED <<kind, gen, seedArg, outs, buf, last, pc, mu, snap, cert, steps>>

\* One extraction call without argument on instance i
DoCall(i, meth) ==
    \E r \in {CallOf(kind, meth, gen[i])} :
        /\ gen' = [gen EXCEPT ![i] = r.g]
        /\ outs' = [outs EXCEPT ![i] = Append(@, <<meth, Zero64, r.out>>)]
        /\ last' = [op |-> meth, inst |-> i, panic |-> r.panic, arg |-> Zero64,
                    out |-> r.out, pre |-> gen[i]]
        /\ steps' = steps + 1
        /\ UNCHANGED <<kind, clock, seedArg, buf, pc, mu, snap, cert>>

\* Int(n) on instance i
DoInt(i, n) ==
    \E r \in {IntOf(kind, gen[i], n)} :
        /\ gen' = [gen EXCEPT ![i] = r.g]
        /\ outs' = [outs EXCEPT ![i] = Append(@, <<"Int", n, r.out>>)]
        /\ last' = [op |-> "Int", inst |-> i, panic |-> r.panic, arg |-> n,
                    out |-> r.out, pre |-> gen[i]]
        /\ steps' = steps + 1
        /\ UNCHANGED <<kind, clock, seedArg, buf, pc, mu, snap, cert>>

\* The same extraction call on each of the two instances.
CallBoth(meth) ==
    \E r1 \in {CallOf(kind, meth, gen[1])}, r2 \in {CallOf(kind, meth, gen[2])} :
        /\ gen' = [gen EXCEPT ![1] = r1.g, ![2] = r2.g]
        /\ outs' = [outs EXCEPT ![1] = Append(@, <<meth, Zero64, r1.out>>),
                                ![2] = Append(@, <<meth, Zero64, r2.out>>)]
        /\ last' = [op |-> "Both", inst |-> 0, panic |-> r1.panic \/ r2.panic,
                    arg |-> Zero64, meth |-> meth]
        /\ steps' = steps + 1
        /\ UNCHANGED <<kind, clock, seedArg, buf, pc, mu, snap, cert>>

\* The same Int(n) on each of the two instances.
IntBoth(n) ==
    \E r1 \in {IntOf(kind, gen[1], n)}, r2 \in {IntOf(kind, gen[2], n)} :
        /\ gen' = [gen EXCEPT ![1] = r1.g, ![2] = r2.g]
        /\ outs' = [outs EXCEPT ![1] = Append(@, <<"Int", n, r1.out>>),
                                ![2] = Append(@, <<"Int", n, r2.out>>)]
        /\ last' = [op |-> "Both", inst |-> 0, panic |-> r1.panic \/ r2.panic,
                    arg |-> n, meth |-> "Int"]
        /\ steps' = steps + 1
        /\ UNCHANGED <<kind, clock, seedArg, buf, pc, mu, snap, cert>>

\* Jump() on instance i
DoJump(i) ==
    /\ kind = "xoshiro256starstar"
    /\ gen' = [gen EXCEPT ![i] = Xoshiro_Jump(gen[i])]
    /\ outs' = [outs EXCEPT ![i] = Append(@, <<"Jump", Zero64, Zero64>>)]
    /\ last' = [op |-> "Jump", inst |-> i, panic |-> FALSE, pre |-> gen[i]]
    /\ steps' = steps + 1
    /\ UNCHANGED <<kind, clock, seedArg, buf, pc, mu, snap, cert>>

\* LongJump() on instance i
DoLongJump(i) ==
    /\ kind = "xoshiro256starstar"
    /\ gen' = [gen EXCEPT ![i] = Xoshiro_LongJump(gen[i])]
    /\ outs' = [outs EXCEPT ![i] = Append(@, <<"LongJump", Zero64, Zero64>>)]
    /\ last' = [op |-> "LongJump", inst |-> i, panic |-> FALSE, pre |-> gen[i]]
    /\ steps' = steps + 1
    /\ UNCHANGED <<kind, clock, seedArg, buf, pc, mu, snap, cert>>

\* Marshal() on instance i: the error it returns is always nil.
DoMarshal(i) ==
    /\ buf' = [data |-> MarshalOf(kind, gen[i]), src |-> gen[i]]
    /\ last' = [op |-> "Marshal", inst |-> i, panic |-> FALSE, err |-> Nil]
    /\ UNCHANGED <<kind, gen, clock, seedArg, outs, pc, mu, snap, cert, steps>>

\* Unmarshal(data) on instance i, through the Safe variant when safe: with no
\* other goroutine about, a Safe method finds the mutex free and leaves it
\* free, and in between runs the base method.
DoUnmarshal(i, data, safe) ==
    \E r \in {UnmarshalOf(kind, gen[i], data)} :
        /\ safe => kind \in SafeFamilies /\ mu = 0
        /\ gen' = [gen EXCEPT ![i] = r.g]
        /\ outs' = [j \in Inst |-> <<>>]
        /\ last' = [op |-> "Unmarshal", inst |-> i, panic |-> FALSE, err |-> r.err,
                    data |-> data, pre |-> gen[i], safe |-> safe]
        /\ UNCHANGED <<kind, clock, seedArg, buf, pc, mu, snap, cert, steps>>

----------------------------------------------------------------------------
(* SpecDet: two instances of one family, each seeded once by Seed at some  *)
(* clock reading, then given the same calls.                               *)

MaxClock == 1

MaxOut == 2

Seeds == {Zero64, Nat64(42), W(\HDEAD, \HBEEF, \HCAFE, \HBABE)}

DetIntArgs == {Nat64(6)}

InitDet ==
    /\ kind \in Families
    /\ gen = [i \in Inst |-> NewOf(kind, Now(0))]
    /\ clock = 0
    /\ seedArg = [i \in Inst |-> NoSeed]
    /\ outs = [i \in Inst |-> <<>>]
    /\ buf = NoBuf
    /\ last = NoCall
    /\ pc = Idle
    /\ mu = 0
    /\ snap = <<>>
    /\ cert = NoCert
    /\ steps = 0

BothSeeded == seedArg[1] # NoSeed /\ seedArg[2] # NoSeed

NextDet ==
    \/ \E i \in Inst, s \in Seeds : seedArg[i] = NoSeed /\ DoSeed(i, s)
    \/ ~BothSeeded /\ clock < MaxClock /\ Tick
    \/ \E m \in Methods(kind) : BothSeeded /\ Len(outs[1]) < MaxOut /\ CallBoth(m)
    \/ \E n \in DetIntArgs :
          BothSeeded /\ HasInt(kind) /\ Len(outs[1]) < MaxOut /\ IntBoth(n)

SpecDet == InitDet /\ [][NextDet]_vars

\* Both instances were seeded by Seed with the same argument.
SameSeed == BothSeeded /\ seedArg[1].seed = seedArg[2].seed

\* The calls the two instances have made since returned the same values.
SameOutputs == outs[1] = outs[2]

\* C1 as stated: for every seed s, s = 0 included, and every family, two
\* instances seeded with Seed(s) return identical output sequences, whatever
\* the clock readings at the two Seed calls.
C1_DeterminismAnySeed == SameSeed => SameOutputs

\* C1 amended: for every seed s # 0 in every family, and for s = 0 in
\* SplitMix64 (whose Seed never reads the clock), two instances seeded with
\* Seed(s) return identical output sequences, whatever the clock readings at
\* the two Seed calls.
C1_Determinism ==
    (SameSeed /\ (seedArg[1].seed # Zero64 \/ kind = "splitmix64")) => SameOutputs

\* Two instances seeded with the same nonzero seed at different clock
\* readings have each made MaxOut calls.
C1_Witness ==
    /\ SameSeed
    /\ seedArg[1].seed # Zero64
    /\ seedArg[1].at # seedArg[2].at
    /\ Len(outs[1]) = MaxOut
    /\ Len(outs[2]) = MaxOut

----------------------------------------------------------------------------
(* SpecSer: instance 1 is seeded and called, Marshal reads it, and the     *)
(* buffer, or a buffer of another length, goes through Unmarshal into      *)
(* either instance, base or Safe; after a restore of instance 2 the two    *)
(* instances are given the same calls.                                     *)

MaxPre == 1

SerSeeds == {Nat64(42), W(\HDEAD, \HBEEF, \HCAFE, \HBABE)}

SerIntArgs == {Nat64(6)}

InitSer ==
    /\ kind \in Families
    /\ gen = [i \in Inst |-> NewOf(kind, Now(0))]
    /\ clock = 0
    /\ seedArg = [i \in Inst |-> NoSeed]
    /\ outs = [i \in Inst |-> <<>>]
    /\ buf = NoBuf
    /\ last = NoCall
    /\ pc = Idle
    /\ mu = 0
    /\ snap = <<>>
    /\ cert = NoCert
    /\ steps = 0

\* Buffers whose length is not that of data: none, one byte less, one more.
OtherLengths(data) == {<<>>, SubSeq(data, 1, Len(data) - 1), data \o <<0>>}

\* Instance 1 may still be called: nothing has been marshalled yet.
Preparing == buf = NoBuf /\ Len(outs[1]) < MaxPre

\* Instance 2 has just been restored from the buffer while instance 1 is
\* still in the state Marshal read, or both have been called alike since.
Restored ==
    \/ /\ last.op = "Unmarshal" /\ last.inst = 2 /\ last.data = buf.data
       /\ gen[1] = buf.src
    \/ last.op = "Both"

NextSer ==
    \/ \E s \in SerSeeds : seedArg[1] = NoSeed /\ Preparing /\ DoSeed(1, s)
    \/ \E m \in Methods(kind) : Preparing /\ DoCall(1, m)
    \/ \E n \in SerIntArgs : Preparing /\ HasInt(kind) /\ DoInt(1, n)
    \/ Preparing /\ DoJump(1)
    \/ Preparing /\ DoLongJump(1)
    \/ buf = NoBuf /\ DoMarshal(1)
    \/ \E i \in Inst, safe \in BOOLEAN :
          buf # NoBuf /\ last.op # "Both" /\ DoUnmarshal(i, buf.data, safe)
    \/ \E i \in Inst, safe \in BOOLEAN, data \in OtherLengths(buf.data) :
          buf # NoBuf /\ last.op # "Both" /\ DoUnmarshal(i, data, safe)
    \/ \E m \in Methods(kind) : Restored /\ Len(outs[2]) < MaxOut /\ CallBoth(m)

SpecSer == InitSer /\ [][NextSer]_vars

\* The family's fixed buffer length as the specification gives it.
FixedLength ==
    CASE kind = "pcg32" -> 16
      [] kind = "pcg64" -> 32
      [] kind = "splitmix64" -> 8
      [] kind = "xoshiro256starstar" -> 32
      [] kind = "mixmax" -> 1928

\* C2: in each family, for every state g reached from New or Seed by
\* extraction calls (and Jump/LongJump in Xoshiro256**), Marshal returns a
\* buffer of the family's fixed length (16, 32, 8, 32, 1928 bytes); Unmarshal
\* of that buffer into either instance returns nil and leaves that instance
\* in state g; and the calls both instances then make return the same values.
C2_RoundTrip ==
    /\ buf # NoBuf => Len(buf.data) = FixedLength
    /\ (last.op = "Unmarshal" /\ last.data = buf.data) =>
           (last.err = Nil /\ gen[last.inst] = buf.src)
    /\ (last.op = "Both" /\ buf # NoBuf) => outs[1] = outs[2]

\* A state was marshalled after a call, restored into instance 2, and both
\* instances have then made MaxOut calls.
C2_Witness ==
    /\ last.op = "Both"
    /\ buf # NoBuf
    /\ buf.src # NewOf(kind, Now(0))
    /\ Len(outs[1]) = MaxOut
    /\ Len(outs[2]) = MaxOut

\* C3: for every family, base and Safe variant, and every buffer whose
\* length differs from the family's fixed size, Unmarshal returns a non-nil
\* error and the whole state of the instance (every word, and the MIXMAX
\* counter) is what it was before the call.
C3_InvalidUnmarshal ==
    (last.op = "Unmarshal" /\ Len(last.data) # FixedLength) =>
        (last.err # Nil /\ gen[last.inst] = last.pre)

\* Unmarshal through a Safe variant was given a buffer one byte too long.
C3_Witness ==
    /\ last.op = "Unmarshal"
    /\ last.safe
    /\ Len(last.data) = FixedLength + 1
    /\ last.err # Nil

----------------------------------------------------------------------------
(* SpecInt: one instance of a family with Int, seeded or as New left it,   *)
(* is asked for Int(n).  A panic ends the program.                         *)

MaxIntCalls == 2

IntSeeds == {Nat64(42), W(\HDEAD, \HBEEF, \HCAFE, \HBABE)}

\* 1, 6, 2^31 + 1, 2^32, 3 * 2^32 and 2^62 + 5: all positive Go ints.
IntArgs ==
    {One64, Nat64(6), W(\H0000, \H0000, \H8000, \H0001), W(\H0000, \H0001, \H0000, \H0000),
     W(\H0000, \H0003, \H0000, \H0000), W(\H4000, \H0000, \H0000, \H0005)}

InitInt ==
    /\ kind \in Families \ {"mixmax"}
    /\ gen = [i \in Inst |-> NewOf(kind, Now(0))]
    /\ clock = 0
    /\ seedArg = [i \in Inst |-> NoSeed]
    /\ outs = [i \in Inst |-> <<>>]
    /\ buf = NoBuf
    /\ last = NoCall
    /\ pc = Idle
    /\ mu = 0
    /\ snap = <<>>
    /\ cert = NoCert
    /\ steps = 0

NextInt ==
    \/ \E s \in IntSeeds : seedArg[1] = NoSeed /\ outs[1] = <<>> /\ DoSeed(1, s)
    \/ \E n \in IntArgs : ~last.panic /\ Len(outs[1]) < MaxIntCalls /\ DoInt(1, n)

SpecInt == InitInt /\ [][NextInt]_vars

\* C4: in every family with Int, from every reachable state and for every
\* n > 0, Int(n) returns without a panic a value r with 0 <= r < n.
C4_RangeLaw ==
    last.op = "Int" =>
        (~last.panic /\ last.out[4] < 2^15 /\ Lt64(last.out, last.arg))

\* n & (n-1) == 0
IsPowerOfTwo(n) == And64(n, Sub64(n, One64)) = Zero64

\* How many raw outputs v in 0..max have v mod n = r.
AcceptedIn(max, n, r) ==
    IF Lt64(max, r) THEN Zero64 ELSE Add64(Div64(Sub64(max, r), n), One64)

\* C5: for every n > 0 that is not a power of two, the raw outputs v <= max
\* that Int(n) accepts fall into each residue class v mod n = r, r in
\* 0..n-1, the same number of times.  The count does not grow with r, so it
\* is the same for all r when it is the same for r = 0 and r = n - 1.
C5_NoModuloBias ==
    (last.op = "Int" /\ ~last.panic /\ ~IsPowerOfTwo(last.arg)) =>
        AcceptedIn(IntMaxOf(kind, last.arg), last.arg, Zero64)
            = AcceptedIn(IntMaxOf(kind, last.arg), last.arg, Sub64(last.arg, One64))

----------------------------------------------------------------------------
(* SpecMix: one MIXMAX instance is seeded and then called, one output per  *)
(* step, through more than one full pass over its array.                   *)

MaxMixCalls == 242

MixSeeds == {Zero64, One64, Nat64(42)}

InitMix ==
    /\ kind = "mixmax"
    /\ gen = [i \in Inst |-> NewOf(kind, Now(0))]
    /\ clock = 0
    /\ seedArg = [i \in Inst |-> NoSeed]
    /\ outs = [i \in Inst |-> <<>>]
    /\ buf = NoBuf
    /\ last = NoCall
    /\ pc = Idle
    /\ mu = 0
    /\ snap = <<>>
    /\ cert = NoCert
    /\ steps = 0

\* Uint64(), Float64() or Int64() on the instance: the call runs iterate()
\* when the counter is zero, and snap records the array as that left it.  The
\* outputs are compared as they come and are not kept.
MixCall(meth) ==
    \E r \in {MIXMAX_Call(meth, gen[1])} :
        /\ gen' = [gen EXCEPT ![1] = r.g]
        /\ last' = [op |-> meth, inst |-> 1, panic |-> r.panic, arg |-> Zero64,
                    out |-> r.out, pre |-> gen[1]]
        /\ snap' = IF gen[1].counter = Zero64 THEN r.g.state ELSE snap
        /\ steps' = steps + 1
        /\ UNCHANGED <<kind, clock, seedArg, outs, buf, pc, mu, cert>>

NextMix ==
    \/ \E s \in MixSeeds : seedArg[1] = NoSeed /\ DoSeed(1, s)
    \/ \E m \in Methods(kind) :
          /\ seedArg[1] # NoSeed /\ steps < MaxMixCalls /\ ~last.panic
          /\ MixCall(m)

SpecMix == InitMix /\ [][NextMix]_vars

\* The position of the last call in its pass of N calls: 1 for the calls
\* number 1, N + 1, ... since Seed.
MixPos == ((steps - 1) % N) + 1

\* C9: counting the calls since Seed (which leaves counter = 0), the calls
\* number 1 and N + 1 = 241 run iterate() and no other call does; call k of
\* a pass returns word N - k of the array as that iterate() left it (239,
\* 238, ..., 0), and no call of the pass changes a word of the array.
C9_BufferOrder ==
    (seedArg[1] # NoSeed /\ steps >= 1) =>
        /\ ~last.panic
        /\ (last.pre.counter = Zero64) <=> (MixPos = 1)
        /\ MixPos = 1 => snap = MIXMAX_iterate(last.pre).state
        /\ gen[1].state = snap
        /\ gen[1].counter = Nat64(N - MixPos)
        /\ last.op = "Next" => last.out = snap[N - MixPos + 1]

\* The last of the N calls of the first pass has returned word 0.
C9_Witness ==
    /\ seedArg[1] # NoSeed
    /\ steps = N
    /\ last.op = "Next"
    /\ last.out = snap[1]
    /\ gen[1].counter = Zero64

\* 2^61
TwoTo61 == W(\H2000, \H0000, \H0000, \H0000)

\* C10: in every state reached from Seed(s) by Uint64/Float64/Int64 calls,
\* each of the N state words is <= 2^61 - 2, every value Uint64() returns is
\* < 2^61, and every value Float64() returns is in [0, 1).
C10_WordBound ==
    seedArg[1] # NoSeed =>
        /\ \A i \in 1..N : Le64(gen[1].state[i], Sub64(TwoTo61, Nat64(2)))
        /\ last.op = "Next" => Lt64(last.out, TwoTo61)
        /\ last.op = "Float64" => FloatLtOne(last.out)

----------------------------------------------------------------------------
(* SpecSafe: two goroutines call one Safe instance (instance 1).  A call   *)
(* enters its wrapper, takes the mutex if the wrapper locks, runs the base *)
(* method - which reads the state and then assigns it, two steps that      *)
(* another goroutine can come between when nothing excludes it - and       *)
(* leaves, unlocking if it had locked.                                     *)

MaxSafeCalls == 2

\* A MIXMAX buffer of the right length whose counter is past the array: the
\* Uint64() that follows its Unmarshal indexes out of range and panics.
MIXMAX_PastEnd == MIXMAX_Marshal([state |-> MIXMAX_Zero.state, counter |-> Nat64(N + 1)])

Call(op, arg, data) == [op |-> op, arg |-> arg, data |-> data]

\* The calls a goroutine may make on the Safe instance of family k.
CallsOn(k) ==
    {Call(o, Zero64, <<>>) : o \in Methods(k) \cup {"Reset", "State", "Marshal"}}
        \cup {Call("Seed", Nat64(42), <<>>), Call("Unmarshal", Zero64, <<>>),
              Call("Unmarshal", Zero64, MarshalOf(k, ZeroOf(k)))}
        \cup (IF HasInt(k) THEN {Call("Int", Nat64(6), <<>>), Call("Int", Zero64, <<>>)}
              ELSE {Call("Unmarshal", Zero64, MIXMAX_PastEnd)})
        \cup (IF k = "xoshiro256starstar"
              THEN {Call("Jump", Zero64, <<>>), Call("LongJump", Zero64, <<>>)}
              ELSE {})

SafeCalls == [k \in SafeFamilies |-> CallsOn(k)]

InitSafe ==
    /\ kind \in SafeFamilies
    /\ gen = [i \in Inst |-> NewOf(kind, Now(0))]
    /\ clock = 0
    /\ seedArg = [i \in Inst |-> NoSeed]
    /\ outs = [i \in Inst |-> <<>>]
    /\ buf = NoBuf
    /\ last = NoCall
    /\ pc = Idle
    /\ mu = 0
    /\ snap = <<>>
    /\ cert = NoCert
    /\ steps = 0

\* Goroutine p calls c: the wrapper's test of n, if it has one, then Lock()
\* if it locks, else straight the promoted base method.
Enter(p, c) ==
    /\ pc[p].at = "idle"
    /\ steps < MaxSafeCalls
    /\ pc' = [pc EXCEPT ![p] =
                 [at     |-> IF PanicsBeforeLock(kind, c) THEN "exit"
                             ELSE IF Locks(kind, c.op) THEN "lock" ELSE "base",
                  call   |-> c,
                  seen   |-> Nil,
                  locked |-> FALSE,
                  panic  |-> PanicsBeforeLock(kind, c)]]
    /\ steps' = steps + 1
    /\ UNCHANGED <<kind, gen, clock, seedArg, outs, buf, last, mu, snap, cert>>

\* mu.Lock() returns
Acquire(p) ==
    /\ pc[p].at = "lock"
    /\ mu = 0
    /\ mu' = p
    /\ pc' = [pc EXCEPT ![p].at = "base", ![p].locked = TRUE]
    /\ UNCHANGED <<kind, gen, clock, seedArg, outs, buf, last, snap, cert, steps>>

\* The base method reads the state.
Read(p) ==
    /\ pc[p].at = "base"
    /\ pc' = [pc EXCEPT ![p].at = "mid", ![p].seen = gen[1]]
    /\ UNCHANGED <<kind, gen, clock, seedArg, outs, buf, last, mu, snap, cert, steps>>

\* The base method assigns the state it computed from what it read, and
\* returns or panics.
Write(p) ==
    /\ pc[p].at = "mid"
    /\ \E r \in {Apply(kind, pc[p].call, pc[p].seen, Now(clock))} :
          /\ gen' = IF r.wrote THEN [gen EXCEPT ![1] = r.g] ELSE gen
          /\ pc' = [pc EXCEPT ![p].at = "exit", ![p].panic = r.panic]
    /\ UNCHANGED <<kind, clock, seedArg, outs, buf, last, mu, snap, cert, steps>>

\* The wrapper is left, and its deferred Unlock() runs if it had locked.
Exit(p) ==
    /\ pc[p].at = "exit"
    /\ mu' = IF pc[p].locked /\ Unlocks(kind, pc[p].call.op, pc[p].panic) THEN 0 ELSE mu
    /\ last' = [op |-> pc[p].call.op, inst |-> p, panic |-> pc[p].panic,
                locked |-> pc[p].locked]
    /\ pc' = [pc EXCEPT ![p] = Outside]
    /\ UNCHANGED <<kind, gen, clock, seedArg, outs, buf, snap, cert, steps>>

NextSafe ==
    \/ \E p \in Procs, c \in SafeCalls[kind] : Enter(p, c)
    \/ \E p \in Procs : Acquire(p)
    \/ \E p \in Procs : Read(p)
    \/ \E p \in Procs : Write(p)
    \/ \E p \in Procs : Exit(p)

\* A goroutine inside a call keeps running; sync.Mutex hands the lock to a
\* goroutine that has waited for it (starvation mode), so a goroutine that
\* finds the mutex free again and again does get it.  Write(p) is enabled
\* exactly when pc[p].at = "mid" and leaves that place, so its weak fairness
\* is the recurrence of pc[p].at # "mid".
FairSafe ==
    \A p \in Procs :
        /\ SF_vars(Acquire(p))
        /\ WF_vars(Read(p))
        /\ []<>(pc[p].at # "mid")
        /\ WF_vars(Exit(p))

SpecSafe == InitSafe /\ [][NextSafe]_vars /\ FairSafe

\* Goroutine p is inside a base method, reading or assigning the state.
InBase(p) == pc[p].at \in {"base", "mid"}

\* C6: on every Safe type and for every operation, two concurrent calls on
\* one instance are never both inside the generator state's reads and
\* writes.
C6_MutualExclusion ==
    \A p, q \in Procs : p # q => ~(InBase(p) /\ InBase(q))

AllIdle == \A p \in Procs : pc[p].at = "idle"

\* C7: whenever no call is executing on the Safe instance its mutex is
\* unlocked; a goroutine waiting in Lock() eventually holds the mutex; and
\* every call eventually completes.
C7_LockRelease ==
    /\ [](AllIdle => mu = 0)
    /\ \A p \in Procs : (pc[p].at = "lock") ~> (mu = p)
    /\ \A p \in Procs : (pc[p].at # "idle") ~> (pc[p].at = "idle")

\* A locked call that panicked inside the base method has left, and the
\* mutex is free.
C7_Witness ==
    /\ last.op # "none"
    /\ last.inst # 0
    /\ last.panic
    /\ last.locked
    /\ AllIdle
    /\ mu = 0

\* ---------------------------------------------------------------------------
\* Xoshiro256**: Jump() and LongJump() against 2^128 and 2^192 calls of Uint64()
\*
\* The state update of Uint64() is linear over GF(2): with T the update map on
\* the 256 state bits, the loop of Jump() computes the sum of T^k s over the
\* bits k set in jump[], i.e. J(T) s for the polynomial J whose coefficients
\* are the bits of jump[].  Jump() equals 2^128 calls of Uint64() on every
\* state iff J(T) = T^(2^128).  With a polynomial P such that P(T) = 0 this is
\* the case when x^(2^128) mod P = J.  The model (1) checks P(T) e = 0 on the
\* 256 unit states e by running the code's own loop, (2) computes
\* x^(2^k) mod P by repeated squaring, comparing the first powers with direct
\* iteration of Uint64(), and (3) compares power 128 with the words of Jump()
\* and power 192 with the words of LongJump().
\* ---------------------------------------------------------------------------

\* Number of state bits: [4]uint64
StateBits == 4 * 64

\* P = x^256 + CHAR_LOW, the characteristic polynomial of the update map;
\* bit b of word i is the coefficient of x^(64 i + b).
CHAR_LOW ==
    << W(\H9D11, \H6F2B, \HB0F0, \HF001), W(\H0280, \H002B, \HCEFD, \H1A5E),
       W(\H04B4, \HEDCF, \H2625, \H9F85), W(\H0003, \HC03C, \H3F3E, \HCB19) >>

PolyOne == <<One64, Zero64, Zero64, Zero64>>

PolyX == <<Nat64(2), Zero64, Zero64, Zero64>>

\* a * x mod P
PolyMulX(a) ==
    Let(<<Shl64(a[1], 1),
          Or64(Shl64(a[2], 1), Shr64(a[1], 63)),
          Or64(Shl64(a[3], 1), Shr64(a[2], 63)),
          Or64(Shl64(a[4], 1), Shr64(a[3], 63))>>,
        LAMBDA sh : IF BitAt(a[4], 63) # 0 THEN XorState(sh, CHAR_LOW) ELSE sh)

\* SquareTable[i + 1] = x^(2 i) mod P, for i in 0 .. 255
SquareTable ==
    ForLoop(LAMBDA st, i : <<Append(st[1], st[2]), PolyMulX(PolyMulX(st[2]))>>,
            <<(<<>>), PolyOne>>, 0, StateBits)[1]

\* a^2 mod P: squaring over GF(2) sends the term x^i to x^(2 i)
PolySquare(a) ==
    ForLoop(LAMBDA acc, i :
                IF BitAt(a[(i \div 64) + 1], i % 64) # 0
                THEN XorState(acc, SquareTable[i + 1]) ELSE acc,
            Xoshiro_Zero.state, 0, StateBits)

\* The state with the single bit i set
UnitState(i) ==
    [state |-> [w \in 1..4 |->
                  IF w = (i \div 64) + 1 THEN Shl64(One64, i % 64) ELSE Zero64]]

\* P(T) s = 0: the sum of T^k s over the bits of CHAR_LOW, as the loop of
\* Jump() computes it, equals T^256 s, the state the loop leaves in x.
Annihilates(s) ==
    Let(Xoshiro_JumpLoop(CHAR_LOW, s), LAMBDA r : r[1] = r[2].state)

\* The state after n calls of Uint64()
Xoshiro_Iterate(x, n) == ForLoop(LAMBDA g, i : Xoshiro_Step(g), x, 0, n)

\* Jump() advances by 2^128 calls, LongJump() by 2^192 calls
JumpExp == 128

LongJumpExp == 192

MaxSquarings == 192

\* Powers x^(2^k) up to this k are compared with 2^k calls of Uint64()
DirectExp == 8

\* States on which Jump() and LongJump() are run
JumpStates ==
    { Xoshiro_Seed(Xoshiro_Zero, Nat64(1), Zero64),
      [state |-> <<Nat64(1), Nat64(2), Nat64(3), Nat64(4)>>],
      [state |-> <<Max64, Zero64, W(\H8000, 0, 0, 0), One64>>] }

InitJump ==
    /\ kind = "xoshiro256starstar"
    /\ gen = [i \in Inst |-> Xoshiro_Zero]
    /\ clock = 0
    /\ seedArg = [i \in Inst |-> NoSeed]
    /\ outs = [i \in Inst |-> <<>>]
    /\ buf = NoBuf
    /\ last = NoCall
    /\ pc = Idle
    /\ mu = 0
    /\ snap = <<>>
    /\ cert = [power |-> PolyX, basis |-> 0, bad |-> {}]
    /\ steps = 0

\* One unit state more is put through P(T).
Annihilate ==
    /\ cert.basis < StateBits
    /\ \E ok \in {Annihilates(UnitState(cert.basis))} :
          cert' = [cert EXCEPT !.basis = @ + 1,
                               !.bad = IF ok THEN @ ELSE @ \cup {cert.basis}]
    /\ UNCHANGED <<kind, gen, clock, seedArg, outs, buf, last, pc, mu, snap, steps>>

\* cert.power = x^(2^steps) mod P is squared.
Square ==
    /\ cert.basis = StateBits
    /\ steps < MaxSquarings
    /\ \E sq \in {PolySquare(cert.power)} : cert' = [cert EXCEPT !.power = sq]
    /\ steps' = steps + 1
    /\ last' = NoCall
    /\ UNCHANGED <<kind, gen, clock, seedArg, outs, buf, pc, mu, snap>>

\* Jump() on instance 1 from state s; instance 2 is s carried through
\* T^(2^128), using the power of x computed so far.
JumpAt(s) ==
    /\ cert.basis = StateBits
    /\ steps = JumpExp
    /\ last = NoCall
    /\ \E a \in {Xoshiro_Jump(s)}, b \in {Xoshiro_JumpWith(cert.power, s)} :
          gen' = [gen EXCEPT ![1] = a, ![2] = b]
    /\ last' = [op |-> "Jump", inst |-> 1, panic |-> FALSE]
    /\ UNCHANGED <<kind, clock, seedArg, outs, buf, pc, mu, snap, cert, steps>>

LongJumpAt(s) ==
    /\ cert.basis = StateBits
    /\ steps = LongJumpExp
    /\ last = NoCall
    /\ \E a \in {Xoshiro_LongJump(s)}, b \in {Xoshiro_JumpWith(cert.power, s)} :
          gen' = [gen EXCEPT ![1] = a, ![2] = b]
    /\ last' = [op |-> "LongJump", inst |-> 1, panic |-> FALSE]
    /\ UNCHANGED <<kind, clock, seedArg, outs, buf, pc, mu, snap, cert, steps>>

NextJump ==
    \/ Annihilate
    \/ Square
    \/ \E s \in JumpStates : JumpAt(s)
    \/ \E s \in JumpStates : LongJumpAt(s)

SpecJump == InitJump /\ [][NextJump]_vars

\* C8: Jump() leaves the state that 2^128 calls of Uint64() leave, and
\* LongJump() the state that 2^192 calls leave, for every state: P(T) = 0 on
\* all unit states checked so far, x^(2^k) mod P acts as 2^k calls of Uint64()
\* for the k that can be iterated, x^(2^128) mod P is the jump[] of Jump() and
\* x^(2^192) mod P the jump[] of LongJump(), and on the sample states the
\* result of Jump() or LongJump() is the state carried through that power.
C8_JumpEquivalence ==
    /\ cert.bad = {}
    /\ (cert.basis = StateBits /\ steps <= DirectExp) =>
          \A s \in JumpStates :
              Xoshiro_JumpWith(cert.power, s) = Xoshiro_Iterate(s, 2^steps)
    /\ (cert.basis = StateBits /\ steps = JumpExp) => cert.power = JUMP
    /\ (cert.basis = StateBits /\ steps = LongJumpExp) => cert.power = LONG_JUMP
    /\ last.op \in {"Jump", "LongJump"} => gen[1] = gen[2]

\* LongJump() has run on a state, after all 256 unit states went through
\* P(T) and x was squared 192 times.
C8_Witness ==
    /\ cert.basis = StateBits
    /\ steps = LongJumpExp
    /\ last.op = "LongJump"
    /\ gen[1] # Xoshiro_Zero
    /\ gen[1] = gen[2]

----------------------------------------------------------------------------
(* SpecLife: one instance of a family through its life: made by New(),     *)
(* seeded by Seed, reseeded by Reset, drawn from, and restored from a      *)
(* buffer of the right length.                                             *)

MaxLifeCalls == 2

LifeSeeds == {Zero64, Nat64(42)}

\* Values of the last 8-byte word of a buffer handed to Unmarshal; as an int,
\* Max64 is -1.
CounterWords == {Zero64, Nat64(N), Nat64(N + 1), Max64}

\* Reset() on instance i
DoReset(i) ==
    /\ gen' = [gen EXCEPT ![i] = ResetOf(kind, gen[i], Now(clock))]
    /\ outs' = [outs EXCEPT ![i] = <<>>]
    /\ last' = [op |-> "Reset", inst |-> i, panic |-> FALSE, arg |-> Now(clock),
                pre |-> gen[i]]
    /\ steps' = 0
    /\ UNCHANGED <<kind, clock, seedArg, buf, pc, mu, snap, cert>>

InitLife ==
    /\ kind \in Families
    /\ gen = [i \in Inst |-> NewOf(kind, Now(0))]
    /\ clock = 0
    /\ seedArg = [i \in Inst |-> NoSeed]
    /\ outs = [i \in Inst |-> <<>>]
    /\ buf = NoBuf
    /\ last = [op |-> "New", inst |-> 1, panic |-> FALSE]
    /\ pc = Idle
    /\ mu = 0
    /\ snap = <<>>
    /\ cert = NoCert
    /\ steps = 0

\* A call that panicked ended the program.
Alive == ~last.panic

NextLife ==
    \/ \E s \in LifeSeeds : Alive /\ seedArg[1] = NoSeed /\ DoSeed(1, s)
    \/ Alive /\ clock < MaxClock /\ Tick
    \/ \E m \in Methods(kind) : Alive /\ steps < MaxLifeCalls /\ DoCall(1, m)
    \/ Alive /\ last.op # "Reset" /\ DoReset(1)
    \/ \E c \in CounterWords :
          /\ Alive
          /\ kind = "mixmax"
          /\ last.op # "Unmarshal"
          /\ steps = 0
          /\ DoUnmarshal(1, PutUint64(MarshalOf(kind, gen[1]), N * 8, c), FALSE)

SpecLife == InitLife /\ [][NextLife]_vars

\* C11: the MIXMAX counter is in [0, 240] in every state reached through
\* New, Seed, Reset, the extraction calls and a successful Unmarshal of a
\* buffer of 1928 bytes, and no call indexes the array outside 0..239.
C11_CounterBound ==
    kind = "mixmax" => (Le64(gen[1].counter, Nat64(N)) /\ ~last.panic)

\* The seed the last Seed on the instance worked with.
SeedUsed == SeedOrNow(seedArg[1].seed, Now(seedArg[1].at))

\* C12: after Seed(s) with s # 0 and any extraction calls, Reset() puts the
\* generator back into the state it had immediately after Seed(s).
C12_ResetRestoresSeed ==
    (last.op = "Reset" /\ seedArg[1] # NoSeed /\ seedArg[1].seed # Zero64)
        => gen[1] = SeedOf(kind, ZeroOf(kind), seedArg[1].seed, Now(seedArg[1].at))

\* C13: New, Seed and Reset of Xoshiro256** each leave the instance ten
\* Uint64() calls past the seeding, so that the first output a caller sees is
\* the eleventh after the seeding.
C13_WarmUp ==
    kind = "xoshiro256starstar" =>
        /\ last.op = "New" => gen[1] = Xoshiro_WarmUp(Xoshiro_Seed(Xoshiro_Zero, Now(0), Now(0)))
        /\ last.op = "Seed" =>
              gen[1] = Xoshiro_WarmUp(Xoshiro_Seed(Xoshiro_Zero, SeedUsed, SeedUsed))
        /\ last.op = "Reset" =>
              gen[1] = Xoshiro_WarmUp(Xoshiro_Seed(Xoshiro_Zero, last.arg, last.arg))

\* The low 16 bytes of the product of the byte strings x and y, as limbs j..8
\* from the byte columns c.
RECURSIVE WideCarry(_, _, _)
WideCarry(c, j, carry) ==
    IF j > 8 THEN <<>>
    ELSE <<(c[2 * j - 1] + Byte * c[2 * j] + carry) % Limb>>
            \o WideCarry(c, j + 1, (c[2 * j - 1] + Byte * c[2 * j] + carry) \div Limb)

\* (a * b) mod 2^128 for a = a.high * 2^64 + a.low and b likewise, by the
\* schoolbook product of their sixteen bytes.
Product128(a, b) ==
    Let(<<Bytes8(a.low) \o Bytes8(a.high), Bytes8(b.low) \o Bytes8(b.high)>>, LAMBDA xy :
        Let(WideCarry([k \in 1..16 |-> MulColumn(xy[1], xy[2], k, 1)], 1, 0), LAMBDA l :
            U128(SubSeq(l, 1, 4), SubSeq(l, 5, 8))))

\* The multiplier 0x5851f42d4c957f2d14057b7ef767814f as a 128-bit value
LCG_MULT_128 == U128(W(\H1405, \H7B7E, \HF767, \H814F), W(\H5851, \HF42D, \H4C95, \H7F2D))

\* C14: Next() of PCG-64 sets state to
\* (oldState * 0x5851f42d4c957f2d14057b7ef767814f + inc) mod 2^128 and leaves
\* inc unchanged; every extraction call without argument is one Next().
C14_Advance ==
    (kind = "pcg64" /\ last.op \in Methods(kind)) =>
        /\ gen[1].state = add128(Product128(last.pre.state, LCG_MULT_128), last.pre.inc)
        /\ gen[1].inc = last.pre.inc

\* C16: Seed(s), s # 0, of PCG-32 and PCG-64 sets state to 0 and inc to its
\* seeded value, advances, adds s to state, and advances again.
C16_SeedProcedure ==
    (last.op = "Seed" /\ last.arg # Zero64) =>
        /\ kind = "pcg32" =>
              /\ gen[1].inc = Or64(Shl64(last.arg, 1), One64)
              /\ gen[1].state =
                    PCG32_Next([state |-> Add64(PCG32_Next([state |-> Zero64,
                                                            inc |-> gen[1].inc]).g.state,
                                                last.arg),
                                inc |-> gen[1].inc]).g.state
        /\ kind = "pcg64" =>
              /\ gen[1].inc = U128(Or64(last.arg, One64), Zero64)
              /\ gen[1].state =
                    PCG64_Next([state |-> add128(PCG64_Next([state |-> U128(Zero64, Zero64),
                                                             inc |-> gen[1].inc]).g.state,
                                                 U128(last.arg, Zero64)),
                                inc |-> gen[1].inc]).g.state

----------------------------------------------------------------------------
(* SpecMul: mul128 applied to two 128-bit operands.                        *)

\* 64-bit words the operands are made of
MulWords == {Zero64, One64, W(0, 1, 0, 0), Max64, PCG64_MULT.low}

MulOperands == {U128(lo, hi) : lo \in MulWords, hi \in {Zero64, One64, PCG64_MULT.high}}

InitMul ==
    /\ kind = "pcg64"
    /\ gen = [i \in Inst |-> PCG64_Zero]
    /\ clock = 0
    /\ seedArg = [i \in Inst |-> NoSeed]
    /\ outs = [i \in Inst |-> <<>>]
    /\ buf = NoBuf
    /\ last = NoCall
    /\ pc = Idle
    /\ mu = 0
    /\ snap \in MulOperands \X MulOperands
    /\ cert = NoCert
    /\ steps = 0

\* mul128(a, b) on the operands held in snap
DoMul ==
    /\ last = NoCall
    /\ \E r \in {mul128(snap[1], snap[2])} :
          last' = [op |-> "mul128", inst |-> 0, panic |-> FALSE, out |-> r]
    /\ UNCHANGED <<kind, gen, clock, seedArg, outs, buf, pc, mu, snap, cert, steps>>

NextMul == DoMul

SpecMul == InitMul /\ [][NextMul]_vars

\* C15: mul128(a, b) is (a * b) mod 2^128, on the branch taken when
\* a.high = b.high = 0 and on the general branch.
C15_Mul128 ==
    last.op = "mul128" => last.out = Product128(snap[1], snap[2])

----------------------------------------------------------------------------
(* The rejection loop of Int(n), checked under SpecInt.                    *)

\* Half the number of raw outputs: 2^31 of the 2^32 in PCG-32, 2^63 of the
\* 2^64 elsewhere.
HalfRange(k) == Add64(Shr64(NativeMax(k), 1), One64)

\* C17: for every n > 0 that is not a power of two, fewer than half of the
\* raw outputs v of the generator's native width have v > max, max being the
\* bound Int(n) computes: NativeMax - max values are rejected.
C17_RedrawProbability ==
    (last.op = "Int" /\ ~last.panic /\ ~IsPowerOfTwo(last.arg)) =>
        Lt64(Sub64(NativeMax(kind), IntMaxOf(kind, last.arg)), HalfRange(kind))

----------------------------------------------------------------------------
(* SpecComm: two Xoshiro256** instances in the same state are given        *)
(* Uint64(), Jump() and LongJump() in any order.                           *)

MaxCommCalls == 2

\* States the two instances start from: the one New() leaves, the seeded
\* state without warm-up, and a state with a single bit set.
CommStates ==
    { Xoshiro_New(Now(0)), Xoshiro_Seed(Xoshiro_Zero, Nat64(42), Now(0)),
      [state |-> <<One64, Zero64, Zero64, Zero64>>] }

InitComm ==
    /\ kind = "xoshiro256starstar"
    /\ \E s \in CommStates : gen = [i \in Inst |-> s]
    /\ clock = 0
    /\ seedArg = [i \in Inst |-> NoSeed]
    /\ outs = [i \in Inst |-> <<>>]
    /\ buf = NoBuf
    /\ last = NoCall
    /\ pc = Idle
    /\ mu = 0
    /\ snap = <<>>
    /\ cert = NoCert
    /\ steps = 0

NextComm ==
    \/ \E i \in Inst : Len(outs[i]) < MaxCommCalls /\ DoCall(i, "Next")
    \/ \E i \in Inst : Len(outs[i]) < MaxCommCalls /\ DoJump(i)
    \/ \E i \in Inst : Len(outs[i]) < MaxCommCalls /\ DoLongJump(i)

SpecComm == InitComm /\ [][NextComm]_vars

\* The names of the calls made on instance i, in order.
CallsMade(i) == [k \in 1..Len(outs[i]) |-> outs[i][k][1]]

\* C18: from the same state, Jump() then Uint64() leaves the state that
\* Uint64() then Jump() leaves, and likewise with LongJump().
C18_JumpCommutes ==
    \A j \in {"Jump", "LongJump"} :
        (CallsMade(1) = <<j, "Next">> /\ CallsMade(2) = <<"Next", j>>) => gen[1] = gen[2]

\* Jump() then Uint64() on one instance, Uint64() then Jump() on the other,
\* and both have moved to the same state.
C18_Witness ==
    /\ CallsMade(1) = <<"Jump", "Next">>
    /\ CallsMade(2) = <<"Next", "Jump">>
    /\ gen[1] = gen[2]
    /\ gen[1] \notin CommStates

====
